---- MODULE Spec2Model ----
(***************************************************************************)
(* A model of the service worker of the Meow streaming site                *)
(* (service-worker.js): the fetch handler's routing, the three caching     *)
(* strategies, the count-based eviction pass, the periodic sweep,          *)
(* activation, prefetch and the broadcasts to the pages.                   *)
(*                                                                         *)
(* Strings that the code tests with regular expressions are modelled as    *)
(* sequences of tokens: a token stands for a piece of text that one of     *)
(* the patterns looks for (".png", "video", "master_") or for text that    *)
(* no pattern looks for ("seg", "q", "frag").  /x$/ is "the last token is  *)
(* x", /x/ is "some token is x".                                           *)
(***************************************************************************)
EXTENDS Naturals, Integers, Sequences, FiniteSets, TLC

VARIABLES
    caches,     \* CacheStorage: cache name -> entries in insertion order
    slot,       \* the fetch events in flight, one record per slot
    sent,       \* task -> the messages it has handed to broadcastMessage
    pf,         \* the PREFETCH_RESOURCES handler in flight
    now,        \* Date.now(), in days
    life,       \* the activate handler's position
    sweep,      \* performPeriodicCleanup's position
    ctl,        \* the message listener's handler in flight
    pages,      \* the pages, and the calls of broadcastMessage
    inst,       \* the install handler's position
    log         \* history the properties read; the handlers never read it

vars == <<caches, slot, sent, pf, now, life, sweep, log, ctl, pages, inst>>

----------------------------------------------------------------------------
(* Bounds of the model *)

\* fetch events that can be in flight at once
MaxSlots == 1
\* tokens in a pathname drawn for the classifier
MaxPathLen == 2
\* last day the clock reaches
MaxDay == 9
\* stands for CACHE_LIMITS.IMAGES and CACHE_LIMITS.JSON (5000 in the source)
LimitLarge == 2
\* stands for CACHE_LIMITS.DYNAMIC and the default limit (50 in the source)
LimitSmall == 1
\* pages that can become clients of the worker
MaxClients == 2

----------------------------------------------------------------------------
(* Sequences of tokens and the two shapes of regular expression *)

EndsWith(s, t) == Len(s) > 0 /\ s[Len(s)] = t

Contains(s, t) == \E i \in 1..Len(s) : s[i] = t

RECURSIVE SeqsUpTo(_, _)
SeqsUpTo(S, n) ==
    IF n = 0 THEN {<<>>}
    ELSE LET shorter == SeqsUpTo(S, n - 1)
         IN  shorter \cup {Append(s, t) : s \in shorter, t \in S}

----------------------------------------------------------------------------
(* Configuration: cache names, pattern lists, limits *)

CACHE_VERSION == "1010250100"

\* CACHE_NAMES, as key -> name; the name is <<prefix, class, version>>,
\* the three pieces that cacheName.split('-') yields
CACHE_NAMES ==
    [k \in {"STATIC", "DYNAMIC", "IMAGES", "JSON", "FONTS"} |->
        <<"meow", CASE k = "STATIC"  -> "static"
                    [] k = "DYNAMIC" -> "dynamic"
                    [] k = "IMAGES"  -> "images"
                    [] k = "JSON"    -> "json"
                    [] k = "FONTS"   -> "fonts", CACHE_VERSION>>]

\* Object.values(CACHE_NAMES)
CurrentNames == {CACHE_NAMES[k] : k \in DOMAIN CACHE_NAMES}

ImageExts == {".jpg", ".jpeg", ".png", ".gif", ".webp", ".svg", ".ico"}

ExternalHosts == {"fonts.googleapis.com", "fonts.gstatic.com",
                  "cdnjs.cloudflare.com", "cdn.jsdelivr.net"}

NETWORK_FIRST_PATTERNS(s) ==
    \/ EndsWith(s, ".m3u8")
    \/ EndsWith(s, ".ts")
    \/ EndsWith(s, ".mp4")
    \/ EndsWith(s, ".webm")
    \/ Contains(s, "video")

IMAGE_CACHE_PATTERNS(s) ==
    \/ \E e \in ImageExts : EndsWith(s, e)
    \/ Contains(s, "share_image_url")
    \/ Contains(s, "placeholder")

JSON_CACHE_PATTERNS(s) ==
    \/ EndsWith(s, ".json")
    \/ Contains(s, "master_")

EXTERNAL_CACHE_PATTERNS(host) == host \in ExternalHosts

DYNAMIC_CACHE_PATTERNS(s) ==
    \/ EndsWith(s, ".html")
    \/ EndsWith(s, ".css")
    \/ EndsWith(s, ".js")
    \/ (Contains(s, "master_") /\ EndsWith(s, ".json"))

\* cacheName.split('-')[1]?.toUpperCase()
LimitKey(name) ==
    CASE name[2] = "static"  -> "STATIC"
      [] name[2] = "dynamic" -> "DYNAMIC"
      [] name[2] = "images"  -> "IMAGES"
      [] name[2] = "json"    -> "JSON"
      [] name[2] = "fonts"   -> "FONTS"
      [] OTHER               -> "?"

CACHE_LIMITS == [IMAGES |-> LimitLarge, JSON |-> LimitLarge, DYNAMIC |-> LimitSmall]

\* CACHE_LIMITS[...] || 50
LimitOf(name) ==
    IF LimitKey(name) \in DOMAIN CACHE_LIMITS
    THEN CACHE_LIMITS[LimitKey(name)]
    ELSE LimitSmall

----------------------------------------------------------------------------
(* Requests and URLs *)

\* new URL(request.url): the pieces the handler reads
PathSearch(u) == u.path \o u.search

\* request.url: the whole serialised URL, fragment included
Href(u) == <<u.protocol, u.host>> \o u.path \o u.search \o u.hash

\* the request identity a cache compares: the URL without its fragment
KeyOf(u) == <<u.protocol, u.host>> \o u.path \o u.search

Url(protocol, host, path, search, hash) ==
    [protocol |-> protocol, host |-> host, path |-> path,
     search |-> search, hash |-> hash]

Req(method, u, acceptsHtml) ==
    [method |-> method, url |-> u, acceptsHtml |-> acceptsHtml]

----------------------------------------------------------------------------
(* Responses and the values a strategy call settles with *)

NoDate == -1

\* the bodies the network serves for u
Bodies(u) == IF "site" = u.host /\ EndsWith(u.path, ".json") THEN {"v1", "v2"} ELSE {"v1"}

\* a network response: same-origin responses expose their Date header, taken
\* as the time of capture; cross-origin responses expose none
NetResponse(u, ok, body) ==
    [tag |-> "response", ok |-> ok, body |-> body, ctype |-> "origin",
     date |-> IF u.host = "site" THEN now ELSE NoDate]

\* the error a rejected fetch settles with
NetworkError ==
    [tag |-> "error", ok |-> FALSE, body |-> "network", ctype |-> "none",
     date |-> NoDate]

\* what fetch(request) can settle with for u: a rejection or a response
NetOutcomes(u) ==
    {NetworkError}
    \cup {NetResponse(u, TRUE, b) : b \in Bodies(u)}
    \cup {NetResponse(u, FALSE, "not-ok")}

CacheError ==
    [tag |-> "error", ok |-> FALSE, body |-> "cache", ctype |-> "none",
     date |-> NoDate]

\* the value of a variable that holds no response (a cache miss)
Undefined ==
    [tag |-> "undefined", ok |-> FALSE, body |-> "none", ctype |-> "none",
     date |-> NoDate]

\* the SVG placeholder cacheFirstStrategy synthesises
Placeholder ==
    [tag |-> "response", ok |-> TRUE, body |-> "svg-image-unavailable",
     ctype |-> "image/svg+xml", date |-> NoDate]

\* the offline document networkFirstStrategy synthesises
OfflinePage ==
    [tag |-> "response", ok |-> TRUE, body |-> "html-you-are-offline",
     ctype |-> "text/html", date |-> NoDate]

----------------------------------------------------------------------------
(* The Cache interface *)

NoCache == <<>>

Range(s) == {s[i] : i \in 1..Len(s)}

\* caches.open(name): the cache is created when it does not exist
CachesOpen(cs, name) ==
    IF name \in DOMAIN cs THEN cs
    ELSE [n \in DOMAIN cs \cup {name} |-> IF n \in DOMAIN cs THEN cs[n] ELSE <<>>]

\* cache.match(request): the stored response, or undefined
CacheMatch(entries, key) ==
    IF \E i \in 1..Len(entries) : entries[i].key = key
    THEN entries[CHOOSE i \in 1..Len(entries) : entries[i].key = key].resp
    ELSE Undefined

\* cache.keys(): the request keys in insertion order
CacheKeys(entries) == [i \in 1..Len(entries) |-> entries[i].key]

\* cache.delete(key) for each key of ks
CacheDeleteAll(entries, ks) ==
    LET Keep(e) == e.key \notin Range(ks)
    IN  SelectSeq(entries, Keep)

\* cache.put(request, response): an entry with the same key is removed and
\* the new entry is appended
CachePut(entries, key, resp) ==
    Append(CacheDeleteAll(entries, <<key>>), [key |-> key, resp |-> resp])

\* a put through a cache object: it writes the storage's cache of that name
\* while that cache exists
PutIn(cs, name, key, resp) ==
    IF name \in DOMAIN cs
    THEN [cs EXCEPT ![name] = CachePut(@, key, resp)]
    ELSE cs

\* KeysToDelete taking the newest keys: keys.slice(-deleteCount)
KeysToDeleteNewest(entries, name) ==
    LET limit == LimitOf(name)
        keys == CacheKeys(entries)
    IN  IF Len(keys) > limit THEN SubSeq(keys, limit + 1, Len(keys)) ELSE <<>>

\* manageCacheSize up to its await of the deletions: the keys to delete
KeysToDelete(entries, name) ==
    LET limit == LimitOf(name)
        keys == CacheKeys(entries)
    IN  IF Len(keys) > limit THEN SubSeq(keys, 1, Len(keys) - limit) ELSE <<>>

----------------------------------------------------------------------------
(* The fetch handler's routing *)

\* url.protocol.startsWith('http')
StartsWithHttp(protocol) == protocol \in {"http:", "https:"}

\* Intercepts without its test of the method
InterceptsAnyMethod(req) == StartsWithHttp(req.url.protocol)

\* whether the handler calls event.respondWith at all
Intercepts(req) == req.method = "GET" /\ StartsWithHttp(req.url.protocol)

\* Route with the structured-data test ahead of the image test
RouteJsonFirst(u) ==
    IF NETWORK_FIRST_PATTERNS(PathSearch(u))
    THEN [strategy |-> "networkFirst", cacheName |-> NoCache]
    ELSE IF JSON_CACHE_PATTERNS(u.path)
    THEN [strategy |-> "staleWhileRevalidate", cacheName |-> CACHE_NAMES["JSON"]]
    ELSE IF IMAGE_CACHE_PATTERNS(PathSearch(u))
    THEN [strategy |-> "cacheFirst", cacheName |-> CACHE_NAMES["IMAGES"]]
    ELSE IF EXTERNAL_CACHE_PATTERNS(u.host)
    THEN [strategy |-> "cacheFirst", cacheName |-> CACHE_NAMES["FONTS"]]
    ELSE IF DYNAMIC_CACHE_PATTERNS(u.path)
    THEN [strategy |-> "staleWhileRevalidate", cacheName |-> CACHE_NAMES["DYNAMIC"]]
    ELSE [strategy |-> "networkFirst", cacheName |-> NoCache]

\* the if / else-if chain of the fetch listener
Route(u) ==
    IF NETWORK_FIRST_PATTERNS(PathSearch(u))
    THEN [strategy |-> "networkFirst", cacheName |-> NoCache]
    ELSE IF IMAGE_CACHE_PATTERNS(PathSearch(u))
    THEN [strategy |-> "cacheFirst", cacheName |-> CACHE_NAMES["IMAGES"]]
    ELSE IF JSON_CACHE_PATTERNS(u.path)
    THEN [strategy |-> "staleWhileRevalidate", cacheName |-> CACHE_NAMES["JSON"]]
    ELSE IF EXTERNAL_CACHE_PATTERNS(u.host)
    THEN [strategy |-> "cacheFirst", cacheName |-> CACHE_NAMES["FONTS"]]
    ELSE IF DYNAMIC_CACHE_PATTERNS(u.path)
    THEN [strategy |-> "staleWhileRevalidate", cacheName |-> CACHE_NAMES["DYNAMIC"]]
    ELSE [strategy |-> "networkFirst", cacheName |-> NoCache]

----------------------------------------------------------------------------
(* State of one fetch event *)

Slots == 1..MaxSlots

NoUrl == Url("none", "none", <<>>, <<>>, <<>>)

NoReq == Req("none", NoUrl, FALSE)

\* pc: where the handler's task stands (the await it is suspended at)
\* settled, value: the promise handed to event.respondWith
\* cached: cachedResponse; net: networkResponse; todel: keysToDelete
IdleSlot ==
    [pc |-> "idle", req |-> NoReq, strategy |-> "none", cacheName |-> NoCache,
     cached |-> Undefined, net |-> Undefined, todel |-> <<>>,
     settled |-> "none", value |-> Undefined]

\* the promise of slot record s resolves with v, unless it has settled
Resolve(s, v) ==
    IF s.settled = "pending"
    THEN [s EXCEPT !.settled = "resolved", !.value = v]
    ELSE s

\* the promise of slot record s rejects with e, unless it has settled
Reject(s, e) ==
    IF s.settled = "pending"
    THEN [s EXCEPT !.settled = "rejected", !.value = e]
    ELSE s

Finish(s) == [s EXCEPT !.pc = "done"]

NoUrlText == <<>>

\* broadcastMessage(type, message, url): the message handed to the clients
Message(type, message, url) == [type |-> type, message |-> message, url |-> url]

\* the tasks that broadcast: a fetch event's slot, or a handler by name
FetchTask(r) == <<"fetch", r>>

PrefetchTask == <<"prefetch", 0>>

LifecycleTask == <<"lifecycle", 0>>

ControlTask == <<"control", 0>>

Tasks == {FetchTask(r) : r \in Slots} \cup {PrefetchTask, LifecycleTask, ControlTask}

NothingSent == [t \in Tasks |-> {}]

\* task t calls broadcastMessage for each message of ms
BroadcastAll(t, ms) == sent' = [sent EXCEPT ![t] = @ \cup ms]

Broadcast(t, type, message, url) == BroadcastAll(t, {Message(type, message, url)})

----------------------------------------------------------------------------
(* History read by the properties *)

\* a successful cache.put(key) into cache name is recorded, while recording
\* is on and the history is no longer than the cache's limit
Recorded(l, name, key) ==
    IF l.rec /\ name \in DOMAIN l.puts /\ Len(l.puts[name]) <= LimitOf(name)
    THEN [l EXCEPT !.puts[name] = Append(@, key)]
    ELSE l

----------------------------------------------------------------------------
(* The fetch listener *)

\* self.addEventListener('fetch', ...): a request reaches the worker in slot r
FetchEvent(r, req) ==
    /\ slot[r].pc = "idle"
    /\ \A q \in Slots : q < r => slot[q].pc # "idle"
    /\ IF ~Intercepts(req)
       THEN slot' = [slot EXCEPT ![r] = [IdleSlot EXCEPT !.pc = "passthrough", !.req = req]]
       ELSE LET to == Route(req.url)
            IN  slot' = [slot EXCEPT ![r] =
                    [IdleSlot EXCEPT
                        !.req = req,
                        !.strategy = to.strategy,
                        !.cacheName = to.cacheName,
                        !.settled = "pending",
                        \* networkFirstStrategy calls fetch before its first
                        \* await; the other two await caches.open first
                        !.pc = CASE to.strategy = "networkFirst" -> "nf_fetch"
                                 [] to.strategy = "cacheFirst" -> "cf_match"
                                 [] OTHER -> "swr_match"]]
    /\ UNCHANGED <<caches, sent, pf, now, life, sweep, log, ctl, pages, inst>>

\* the event is over: the slot is free for the next request
Release(r) ==
    /\ slot[r].pc \in {"done", "passthrough"}
    /\ slot' = [slot EXCEPT ![r] = IdleSlot]
    /\ sent' = [sent EXCEPT ![FetchTask(r)] = {}]
    /\ UNCHANGED <<caches, pf, now, life, sweep, log, ctl, pages, inst>>

----------------------------------------------------------------------------
(* networkFirstStrategy *)

\* NetworkFirstFetched storing a successful response in the Dynamic cache
NetworkFirstFetchedStoring(r, out) ==
    /\ slot[r].pc = "nf_fetch"
    /\ out \in NetOutcomes(slot[r].req.url)
    /\ IF out.tag = "response"
       THEN /\ slot' = [slot EXCEPT ![r] = Finish(Resolve([@ EXCEPT !.net = out], out))]
            /\ caches' = IF out.ok
                         THEN PutIn(CachesOpen(caches, CACHE_NAMES["DYNAMIC"]),
                                    CACHE_NAMES["DYNAMIC"], KeyOf(slot[r].req.url), out)
                         ELSE caches
       ELSE /\ slot' = [slot EXCEPT ![r] = [@ EXCEPT !.net = out, !.pc = "nf_match"]]
            /\ caches' = caches
    /\ UNCHANGED <<sent, pf, now, life, sweep, log, ctl, pages, inst>>

\* fetch(request) settles with out
NetworkFirstFetched(r, out) ==
    /\ slot[r].pc = "nf_fetch"
    /\ out \in NetOutcomes(slot[r].req.url)
    /\ IF out.tag = "response"
       THEN slot' = [slot EXCEPT ![r] = Finish(Resolve([@ EXCEPT !.net = out], out))]
       ELSE slot' = [slot EXCEPT ![r] = [@ EXCEPT !.net = out, !.pc = "nf_match"]]
    /\ UNCHANGED <<caches, sent, pf, now, life, sweep, log, ctl, pages, inst>>

\* NetworkFirstFallback serving the offline document whatever the request
\* accepts
NetworkFirstFallbackAlwaysHtml(r) ==
    /\ slot[r].pc = "nf_match"
    /\ LET name == CACHE_NAMES["DYNAMIC"]
           opened == CachesOpen(caches, name)
           hit == CacheMatch(opened[name], KeyOf(slot[r].req.url))
       IN  /\ caches' = opened
           /\ IF hit # Undefined
              THEN /\ Broadcast(FetchTask(r), "OFFLINE_FALLBACK", "Serving cached version",
                                Href(slot[r].req.url))
                   /\ slot' = [slot EXCEPT ![r] =
                          Finish(Resolve([@ EXCEPT !.cached = hit], hit))]
              ELSE /\ sent' = sent
                   /\ slot' = [slot EXCEPT ![r] = Finish(Resolve(@, OfflinePage))]
    /\ UNCHANGED <<pf, now, life, sweep, log, ctl, pages, inst>>

\* NetworkFirstFallback never rethrowing: with no entry and no text/html
\* accepted the call stays suspended
NetworkFirstFallbackHanging(r) ==
    /\ slot[r].pc = "nf_match"
    /\ LET name == CACHE_NAMES["DYNAMIC"]
           opened == CachesOpen(caches, name)
           hit == CacheMatch(opened[name], KeyOf(slot[r].req.url))
       IN  /\ hit # Undefined \/ slot[r].req.acceptsHtml
           /\ caches' = opened
           /\ IF hit # Undefined
              THEN /\ Broadcast(FetchTask(r), "OFFLINE_FALLBACK", "Serving cached version",
                                Href(slot[r].req.url))
                   /\ slot' = [slot EXCEPT ![r] =
                          Finish(Resolve([@ EXCEPT !.cached = hit], hit))]
              ELSE /\ sent' = sent
                   /\ slot' = [slot EXCEPT ![r] = Finish(Resolve(@, OfflinePage))]
    /\ UNCHANGED <<pf, now, life, sweep, log, ctl, pages, inst>>

\* the catch block: caches.open(CACHE_NAMES.DYNAMIC), cache.match(request)
NetworkFirstFallback(r) ==
    /\ slot[r].pc = "nf_match"
    /\ LET name == CACHE_NAMES["DYNAMIC"]
           opened == CachesOpen(caches, name)
           hit == CacheMatch(opened[name], KeyOf(slot[r].req.url))
       IN  /\ caches' = opened
           /\ IF hit # Undefined
              THEN /\ Broadcast(FetchTask(r), "OFFLINE_FALLBACK", "Serving cached version",
                                Href(slot[r].req.url))
                   /\ slot' = [slot EXCEPT ![r] =
                          Finish(Resolve([@ EXCEPT !.cached = hit], hit))]
              ELSE /\ sent' = sent
                   /\ slot' = [slot EXCEPT ![r] =
                          IF slot[r].req.acceptsHtml
                          THEN Finish(Resolve(@, OfflinePage))
                          ELSE Finish(Reject(@, slot[r].net))]
    /\ UNCHANGED <<pf, now, life, sweep, log, ctl, pages, inst>>

----------------------------------------------------------------------------
(* cacheFirstStrategy and updateInBackground *)

EntriesOf(cs, name) == IF name \in DOMAIN cs THEN cs[name] ELSE <<>>

\* a cache.delete(key) for each key of ks, through a cache object
DeleteIn(cs, name, ks) ==
    IF name \in DOMAIN cs
    THEN [cs EXCEPT ![name] = CacheDeleteAll(@, ks)]
    ELSE cs

\* the catch block of cacheFirstStrategy, after its broadcast: the
\* placeholder when request.url matches an image pattern, else the error
CacheFirstCatch(s, err) ==
    IF IMAGE_CACHE_PATTERNS(Href(s.req.url))
    THEN Finish(Resolve(s, Placeholder))
    ELSE Finish(Reject(s, err))

\* caches.open(cacheName) and cache.match(request); on a hit the refresh is
\* started (updateInBackground calls fetch) and the entry is returned
CacheFirstMatch(r) ==
    /\ slot[r].pc = "cf_match"
    /\ LET name == slot[r].cacheName
           opened == CachesOpen(caches, name)
           hit == CacheMatch(opened[name], KeyOf(slot[r].req.url))
       IN  /\ caches' = opened
           /\ slot' = [slot EXCEPT ![r] =
                  IF hit # Undefined
                  THEN [Resolve([@ EXCEPT !.cached = hit], hit) EXCEPT !.pc = "bg_fetch"]
                  ELSE [@ EXCEPT !.pc = "cf_fetch"]]
    /\ UNCHANGED <<sent, pf, now, life, sweep, log, ctl, pages, inst>>

\* the miss path: fetch(request) settles with out
CacheFirstFetched(r, out) ==
    /\ slot[r].pc = "cf_fetch"
    /\ out \in NetOutcomes(slot[r].req.url)
    /\ IF out.tag = "error"
       THEN /\ Broadcast(FetchTask(r), "CACHE_ERROR", "network", Href(slot[r].req.url))
            /\ slot' = [slot EXCEPT ![r] = CacheFirstCatch([@ EXCEPT !.net = out], out)]
       ELSE /\ sent' = sent
            /\ slot' = [slot EXCEPT ![r] =
                   IF out.ok
                   THEN [@ EXCEPT !.net = out, !.pc = "cf_put"]
                   ELSE Finish(Resolve([@ EXCEPT !.net = out], out))]
    /\ UNCHANGED <<caches, pf, now, life, sweep, log, ctl, pages, inst>>

\* cache.put(request, responseToCache) settles: stored, or rejected
CacheFirstPut(r, stored) ==
    /\ slot[r].pc = "cf_put"
    /\ IF stored
       THEN /\ caches' = PutIn(caches, slot[r].cacheName, KeyOf(slot[r].req.url),
                               slot[r].net)
            /\ log' = Recorded(log, slot[r].cacheName, KeyOf(slot[r].req.url))
            /\ slot' = [slot EXCEPT ![r] = [@ EXCEPT !.pc = "cf_keys"]]
            /\ sent' = sent
       ELSE /\ Broadcast(FetchTask(r), "CACHE_ERROR", "cache", Href(slot[r].req.url))
            /\ slot' = [slot EXCEPT ![r] = CacheFirstCatch(@, CacheError)]
            /\ UNCHANGED <<caches, log>>
    /\ UNCHANGED <<pf, now, life, sweep, ctl, pages, inst>>

\* after manageCacheSize: the broadcast and the return of networkResponse
CacheFirstReturn(s) == Finish(Resolve(s, s.net))

\* manageCacheSize: cache.keys() settles; with nothing to delete the
\* strategy goes on to its return
CacheFirstEvictKeys(r) ==
    /\ slot[r].pc = "cf_keys"
    /\ LET del == KeysToDelete(EntriesOf(caches, slot[r].cacheName), slot[r].cacheName)
       IN  IF del = <<>>
           THEN /\ Broadcast(FetchTask(r), "CACHE_UPDATED", "Resource cached", Href(slot[r].req.url))
                /\ slot' = [slot EXCEPT ![r] = CacheFirstReturn(@)]
           ELSE /\ sent' = sent
                /\ slot' = [slot EXCEPT ![r] = [@ EXCEPT !.todel = del, !.pc = "cf_delete"]]
    /\ UNCHANGED <<caches, pf, now, life, sweep, log, ctl, pages, inst>>

\* manageCacheSize: the deletions settle
CacheFirstEvictDelete(r) ==
    /\ slot[r].pc = "cf_delete"
    /\ caches' = DeleteIn(caches, slot[r].cacheName, slot[r].todel)
    /\ Broadcast(FetchTask(r), "CACHE_UPDATED", "Resource cached", Href(slot[r].req.url))
    /\ slot' = [slot EXCEPT ![r] = CacheFirstReturn(@)]
    /\ UNCHANGED <<pf, now, life, sweep, log, ctl, pages, inst>>

\* BackgroundFetched without the test of networkResponse.ok
BackgroundFetchedUntested(r, out) ==
    /\ slot[r].pc = "bg_fetch"
    /\ out \in NetOutcomes(slot[r].req.url)
    /\ slot' = [slot EXCEPT ![r] =
           IF out.tag = "response"
           THEN [@ EXCEPT !.net = out, !.pc = "bg_put"]
           ELSE Finish(@)]
    /\ UNCHANGED <<caches, sent, pf, now, life, sweep, log, ctl, pages, inst>>

\* updateInBackground: fetch(request) settles with out; a rejection or a
\* response that is not ok ends the refresh without a trace
BackgroundFetched(r, out) ==
    /\ slot[r].pc = "bg_fetch"
    /\ out \in NetOutcomes(slot[r].req.url)
    /\ slot' = [slot EXCEPT ![r] =
           IF out.tag = "response" /\ out.ok
           THEN [@ EXCEPT !.net = out, !.pc = "bg_put"]
           ELSE Finish(@)]
    /\ UNCHANGED <<caches, sent, pf, now, life, sweep, log, ctl, pages, inst>>

\* updateInBackground: cache.put settles; no eviction pass follows it
BackgroundPut(r, stored) ==
    /\ slot[r].pc = "bg_put"
    /\ IF stored
       THEN /\ caches' = PutIn(caches, slot[r].cacheName, KeyOf(slot[r].req.url),
                               slot[r].net)
            /\ log' = Recorded(log, slot[r].cacheName, KeyOf(slot[r].req.url))
            /\ Broadcast(FetchTask(r), "CACHE_UPDATED", "Background update completed",
                         Href(slot[r].req.url))
       ELSE UNCHANGED <<caches, log, sent>>
    /\ slot' = [slot EXCEPT ![r] = Finish(@)]
    /\ UNCHANGED <<pf, now, life, sweep, ctl, pages, inst>>

----------------------------------------------------------------------------
(* staleWhileRevalidateStrategy *)

\* StaleMatch returning networkPromise even when a stale entry was found
StaleMatchAwaiting(r) ==
    /\ slot[r].pc = "swr_match"
    /\ LET name == slot[r].cacheName
           opened == CachesOpen(caches, name)
           hit == CacheMatch(opened[name], KeyOf(slot[r].req.url))
       IN  /\ caches' = opened
           /\ slot' = [slot EXCEPT ![r] = [@ EXCEPT !.cached = hit, !.pc = "swr_fetch"]]
    /\ UNCHANGED <<sent, pf, now, life, sweep, log, ctl, pages, inst>>

\* caches.open(cacheName) and cache.match(request); fetch(request) is then
\* called, and a stale entry is returned without awaiting it
StaleMatch(r) ==
    /\ slot[r].pc = "swr_match"
    /\ LET name == slot[r].cacheName
           opened == CachesOpen(caches, name)
           hit == CacheMatch(opened[name], KeyOf(slot[r].req.url))
       IN  /\ caches' = opened
           /\ slot' = [slot EXCEPT ![r] =
                  IF hit # Undefined
                  THEN [Resolve([@ EXCEPT !.cached = hit], hit) EXCEPT !.pc = "swr_fetch"]
                  ELSE [@ EXCEPT !.pc = "swr_fetch"]]
    /\ UNCHANGED <<sent, pf, now, life, sweep, log, ctl, pages, inst>>

\* the .catch of networkPromise, after its broadcast: the promise resolves
\* with cachedResponse, which is undefined when there was no stale entry
StaleCatch(s) == Finish(Resolve(s, s.cached))

\* fetch(request) settles with out
StaleFetched(r, out) ==
    /\ slot[r].pc = "swr_fetch"
    /\ out \in NetOutcomes(slot[r].req.url)
    /\ IF out.tag = "error"
       THEN /\ Broadcast(FetchTask(r), "CACHE_ERROR", "network", Href(slot[r].req.url))
            /\ slot' = [slot EXCEPT ![r] = StaleCatch([@ EXCEPT !.net = out])]
       ELSE /\ sent' = sent
            /\ slot' = [slot EXCEPT ![r] =
                   IF out.ok
                   THEN [@ EXCEPT !.net = out, !.pc = "swr_put"]
                   ELSE Finish(Resolve([@ EXCEPT !.net = out], out))]
    /\ UNCHANGED <<caches, pf, now, life, sweep, log, ctl, pages, inst>>

\* StalePut with no call of manageCacheSize after the put
StalePutWithoutEviction(r, stored) ==
    /\ slot[r].pc = "swr_put"
    /\ IF stored
       THEN /\ caches' = PutIn(caches, slot[r].cacheName, KeyOf(slot[r].req.url),
                               slot[r].net)
            /\ log' = Recorded(log, slot[r].cacheName, KeyOf(slot[r].req.url))
            /\ slot' = [slot EXCEPT ![r] = Finish(Resolve(@, @.net))]
            /\ sent' = sent
       ELSE /\ Broadcast(FetchTask(r), "CACHE_ERROR", "cache", Href(slot[r].req.url))
            /\ slot' = [slot EXCEPT ![r] = StaleCatch(@)]
            /\ UNCHANGED <<caches, log>>
    /\ UNCHANGED <<pf, now, life, sweep, ctl, pages, inst>>

\* cache.put(request, responseToCache) settles: stored, or rejected
StalePut(r, stored) ==
    /\ slot[r].pc = "swr_put"
    /\ IF stored
       THEN /\ caches' = PutIn(caches, slot[r].cacheName, KeyOf(slot[r].req.url),
                               slot[r].net)
            /\ log' = Recorded(log, slot[r].cacheName, KeyOf(slot[r].req.url))
            /\ slot' = [slot EXCEPT ![r] = [@ EXCEPT !.pc = "swr_keys"]]
            /\ sent' = sent
       ELSE /\ Broadcast(FetchTask(r), "CACHE_ERROR", "cache", Href(slot[r].req.url))
            /\ slot' = [slot EXCEPT ![r] = StaleCatch(@)]
            /\ UNCHANGED <<caches, log>>
    /\ UNCHANGED <<pf, now, life, sweep, ctl, pages, inst>>

\* after manageCacheSize: the comparison of the two bodies and the
\* broadcast.  used: the body of cachedResponse has been read by the page
\* it was returned to, so that cachedResponse.clone() throws
StaleNotice(s, used) ==
    IF s.cached # Undefined
    THEN IF used
         THEN {Message("CACHE_ERROR", "clone", Href(s.req.url))}
         ELSE IF s.cached.body # s.net.body
         THEN {Message("CONTENT_UPDATED", "Content updated", Href(s.req.url))}
         ELSE {}
    ELSE {Message("CACHE_UPDATED", "New content cached", Href(s.req.url))}

\* the value networkPromise resolves with after manageCacheSize
StaleReturn(s, used) ==
    IF s.cached # Undefined /\ used THEN StaleCatch(s) ELSE Finish(Resolve(s, s.net))

\* manageCacheSize: cache.keys() settles
StaleEvictKeys(r, used) ==
    /\ slot[r].pc = "swr_keys"
    /\ LET del == KeysToDelete(EntriesOf(caches, slot[r].cacheName), slot[r].cacheName)
       IN  IF del = <<>>
           THEN /\ BroadcastAll(FetchTask(r), StaleNotice(slot[r], used))
                /\ slot' = [slot EXCEPT ![r] = StaleReturn(@, used)]
           ELSE /\ sent' = sent
                /\ slot' = [slot EXCEPT ![r] = [@ EXCEPT !.todel = del, !.pc = "swr_delete"]]
    /\ UNCHANGED <<caches, pf, now, life, sweep, log, ctl, pages, inst>>

\* manageCacheSize: the deletions settle
StaleEvictDelete(r, used) ==
    /\ slot[r].pc = "swr_delete"
    /\ caches' = DeleteIn(caches, slot[r].cacheName, slot[r].todel)
    /\ BroadcastAll(FetchTask(r), StaleNotice(slot[r], used))
    /\ slot' = [slot EXCEPT ![r] = StaleReturn(@, used)]
    /\ UNCHANGED <<pf, now, life, sweep, log, ctl, pages, inst>>

----------------------------------------------------------------------------
(* handlePrefetchResources *)

IdlePrefetch == [urls |-> <<>>, st |-> <<>>, net |-> <<>>]

\* the cache a prefetched URL is stored in: the patterns are tested on the
\* URL string of the message
PrefetchCacheName(u) ==
    IF IMAGE_CACHE_PATTERNS(Href(u)) THEN CACHE_NAMES["IMAGES"]
    ELSE IF JSON_CACHE_PATTERNS(Href(u)) THEN CACHE_NAMES["JSON"]
    ELSE CACHE_NAMES["DYNAMIC"]

\* the message arrives: fetch(url) is called for every URL of the list
PrefetchMessage(urls) ==
    /\ pf = IdlePrefetch
    /\ urls # <<>>
    /\ pf' = [urls |-> urls,
              st |-> [i \in 1..Len(urls) |-> "fetch"],
              net |-> [i \in 1..Len(urls) |-> Undefined]]
    /\ sent' = [sent EXCEPT ![PrefetchTask] = {}]
    /\ UNCHANGED <<caches, slot, now, life, sweep, log, ctl, pages, inst>>

\* PrefetchFetched without the inner try / catch: a rejected fetch ends the
\* handling of every URL
PrefetchFetchedFailFast(i, out) ==
    /\ i \in 1..Len(pf.urls)
    /\ pf.st[i] = "fetch"
    /\ out \in NetOutcomes(pf.urls[i])
    /\ pf' = IF out.tag = "response" /\ out.ok
             THEN [pf EXCEPT !.st[i] = "put", !.net[i] = out]
             ELSE IF out.tag = "response"
             THEN [pf EXCEPT !.st[i] = "done"]
             ELSE [pf EXCEPT !.st = [j \in 1..Len(pf.urls) |-> "done"]]
    /\ UNCHANGED <<caches, slot, sent, now, life, sweep, log, ctl, pages, inst>>

\* fetch(url) of the i-th URL settles with out
PrefetchFetched(i, out) ==
    /\ i \in 1..Len(pf.urls)
    /\ pf.st[i] = "fetch"
    /\ out \in NetOutcomes(pf.urls[i])
    /\ pf' = IF out.tag = "response" /\ out.ok
             THEN [pf EXCEPT !.st[i] = "put", !.net[i] = out]
             ELSE [pf EXCEPT !.st[i] = "done"]
    /\ UNCHANGED <<caches, slot, sent, now, life, sweep, log, ctl, pages, inst>>

\* caches.open(cacheName) and cache.put(url, response.clone()) of the i-th
\* URL settle; no eviction pass follows
PrefetchPut(i, stored) ==
    /\ i \in 1..Len(pf.urls)
    /\ pf.st[i] = "put"
    /\ LET name == PrefetchCacheName(pf.urls[i])
           opened == CachesOpen(caches, name)
       IN  IF stored
           THEN /\ caches' = PutIn(opened, name, KeyOf(pf.urls[i]), pf.net[i])
                /\ log' = Recorded(log, name, KeyOf(pf.urls[i]))
           ELSE /\ caches' = opened
                /\ log' = log
    /\ pf' = [pf EXCEPT !.st[i] = "done"]
    /\ UNCHANGED <<slot, sent, now, life, sweep, ctl, pages, inst>>

\* Promise.all(prefetchPromises) settles: the summary broadcast
PrefetchJoin ==
    /\ pf # IdlePrefetch
    /\ \A i \in 1..Len(pf.urls) : pf.st[i] = "done"
    /\ Broadcast(PrefetchTask, "CACHE_UPDATED", "Prefetched resources", NoUrlText)
    /\ pf' = IdlePrefetch
    /\ UNCHANGED <<caches, slot, now, life, sweep, log, ctl, pages, inst>>

----------------------------------------------------------------------------
(* The install handler *)

\* no install event is being handled.  skip: self.skipWaiting() has been
\* called; st, net: the fetches of cache.addAll and their responses
IdleInstall == [pc |-> "idle", skip |-> FALSE, st |-> <<>>, net |-> <<>>]

----------------------------------------------------------------------------
(* The activate handler *)

\* todel: the names whose caches.delete is in flight; claimed: whether
\* clients.claim() has settled
Installed == [pc |-> "installed", todel |-> {}, claimed |-> FALSE]

Activated == [pc |-> "active", todel |-> {}, claimed |-> TRUE]

\* cacheName.startsWith('meow-')
StartsWithMeow(name) == Len(name) > 1 /\ name[1] = "meow"

\* OldCacheNames sparing the caches that hold entries
OldCacheNamesIfEmpty(cs) ==
    {n \in DOMAIN cs : StartsWithMeow(n) /\ n \notin CurrentNames /\ cs[n] = <<>>}

\* the names the activate handler calls caches.delete for
OldCacheNames(cs) ==
    {n \in DOMAIN cs : StartsWithMeow(n) /\ n \notin CurrentNames}

\* caches.delete(name)
CachesDelete(cs, name) == [n \in DOMAIN cs \ {name} |-> cs[n]]

\* the activate event: caches.keys() and clients.claim() are called
ActivateEvent ==
    /\ life.pc = "installed"
    /\ life' = [life EXCEPT !.pc = "keys"]
    /\ UNCHANGED <<caches, slot, sent, pf, now, sweep, log, ctl, pages, inst>>

\* caches.keys() settles: caches.delete is called for every old name
ActivateKeys ==
    /\ life.pc = "keys"
    /\ life' = [life EXCEPT !.pc = "deleting", !.todel = OldCacheNames(caches)]
    /\ UNCHANGED <<caches, slot, sent, pf, now, sweep, log, ctl, pages, inst>>

\* one caches.delete settles
ActivateDeleted(name) ==
    /\ life.pc = "deleting"
    /\ name \in life.todel
    /\ caches' = CachesDelete(caches, name)
    /\ life' = [life EXCEPT !.todel = @ \ {name}]
    /\ UNCHANGED <<slot, sent, pf, now, sweep, log, ctl, pages, inst>>

\* self.clients.claim() settles
ClientsClaimed ==
    /\ life.pc \in {"keys", "deleting"}
    /\ ~life.claimed
    /\ life' = [life EXCEPT !.claimed = TRUE]
    /\ UNCHANGED <<caches, slot, sent, pf, now, sweep, log, ctl, pages, inst>>

\* the outer Promise.all settles: the SW_ACTIVATED broadcast
ActivateDone ==
    /\ life.pc = "deleting"
    /\ life.todel = {}
    /\ life.claimed
    /\ life' = [life EXCEPT !.pc = "active"]
    /\ Broadcast(LifecycleTask, "SW_ACTIVATED",
                 "Service Worker is now controlling all pages", NoUrlText)
    /\ UNCHANGED <<caches, slot, pf, now, sweep, log, ctl, pages, inst>>

----------------------------------------------------------------------------
(* performPeriodicCleanup *)

\* the retention window, in days
RetentionDays == 7

\* i: the index in Object.values(CACHE_NAMES) of the cache the loop is at;
\* cutoff: sevenDaysAgo
IdleSweep == [pc |-> "idle", i |-> 0, cutoff |-> 0]

\* Object.values(CACHE_NAMES), in order
CleanupOrder ==
    <<CACHE_NAMES["STATIC"], CACHE_NAMES["DYNAMIC"], CACHE_NAMES["IMAGES"],
      CACHE_NAMES["JSON"], CACHE_NAMES["FONTS"]>>

\* Expired also taking an entry dated exactly at the cutoff
ExpiredInclusive(resp, cutoff) == resp.date # NoDate /\ resp.date <= cutoff

\* if (dateHeader) { ... if (responseDate < sevenDaysAgo)
Expired(resp, cutoff) == resp.date # NoDate /\ resp.date < cutoff

\* the second loop's body for one cache: the keys of the expired entries
ExpiredKeys(entries, cutoff) ==
    LET Old(e) == Expired(e.resp, cutoff)
    IN  CacheKeys(SelectSeq(entries, Old))

\* the interval timer fires: performPeriodicCleanup is called
CleanupStart ==
    /\ sweep.pc = "idle"
    /\ sweep' = [sweep EXCEPT !.pc = "count", !.i = 1]
    /\ log' = [log EXCEPT !.start = caches]
    /\ UNCHANGED <<caches, slot, sent, pf, now, life, ctl, pages, inst>>

\* the first loop, one cache: caches.open and manageCacheSize; after the
\* last cache, sevenDaysAgo is computed
CleanupCount ==
    /\ sweep.pc = "count"
    /\ LET name == CleanupOrder[sweep.i]
           opened == CachesOpen(caches, name)
       IN  caches' = DeleteIn(opened, name, KeysToDelete(opened[name], name))
    /\ sweep' = IF sweep.i < Len(CleanupOrder)
                THEN [sweep EXCEPT !.i = @ + 1]
                ELSE [pc |-> "age", i |-> 1, cutoff |-> now - RetentionDays]
    /\ UNCHANGED <<slot, sent, pf, now, life, log, ctl, pages, inst>>

\* the second loop, one cache: caches.open, cache.keys and, per key, the
\* match, the test of the date header and the delete
CleanupAge ==
    /\ sweep.pc = "age"
    /\ LET name == CleanupOrder[sweep.i]
           opened == CachesOpen(caches, name)
       IN  caches' = DeleteIn(opened, name, ExpiredKeys(opened[name], sweep.cutoff))
    /\ sweep' = IF sweep.i < Len(CleanupOrder)
                THEN [sweep EXCEPT !.i = @ + 1]
                ELSE [sweep EXCEPT !.pc = "done"]
    /\ UNCHANGED <<slot, sent, pf, now, life, log, ctl, pages, inst>>

\* performPeriodicCleanup returns
CleanupEnd ==
    /\ sweep.pc = "done"
    /\ sweep' = IdleSweep
    /\ log' = [log EXCEPT !.start = <<>>]
    /\ UNCHANGED <<caches, slot, sent, pf, now, life, ctl, pages, inst>>

\* a day passes
Tick ==
    /\ now < MaxDay
    /\ now' = now + 1
    /\ UNCHANGED <<caches, slot, sent, pf, life, sweep, log, ctl, pages, inst>>

----------------------------------------------------------------------------
(* The message listener: handleForceUpdate and handleClearCache *)

\* data?.cacheName of a CLEAR_CACHE message that names no cache
NoName == <<>>

\* pc: the await the handler is suspended at; arg: cacheName; todel: the
\* names whose caches.delete is in flight; skipped: skipWaiting was called
IdleControl == [pc |-> "idle", arg |-> NoName, todel |-> {}, skipped |-> FALSE]

\* cacheNames.filter(name => name.startsWith('meow-'))
MeowNames(cs) == {n \in DOMAIN cs : StartsWithMeow(n)}

\* FORCE_UPDATE arrives: handleForceUpdate calls caches.keys()
ForceUpdateMessage ==
    /\ ctl.pc = "idle"
    /\ ctl' = [IdleControl EXCEPT !.pc = "fu_keys"]
    /\ log' = [log EXCEPT !.start = caches]
    /\ UNCHANGED <<caches, slot, sent, pf, now, life, sweep, pages, inst>>

\* ForceUpdateKeys notifying the pages as soon as the deletions are started
ForceUpdateKeysNotifying ==
    /\ ctl.pc = "fu_keys"
    /\ ctl' = [ctl EXCEPT !.pc = "fu_delete", !.todel = MeowNames(caches)]
    /\ Broadcast(ControlTask, "SW_UPDATED", "Service Worker updated, please reload",
                 NoUrlText)
    /\ UNCHANGED <<caches, slot, pf, now, life, sweep, log, pages, inst>>

\* caches.keys() settles: caches.delete is called for every 'meow-' name
ForceUpdateKeys ==
    /\ ctl.pc = "fu_keys"
    /\ ctl' = [ctl EXCEPT !.pc = "fu_delete", !.todel = MeowNames(caches)]
    /\ UNCHANGED <<caches, slot, sent, pf, now, life, sweep, log, pages, inst>>

\* one caches.delete of the Promise.all settles
ControlDeleted(name) ==
    /\ ctl.pc \in {"fu_delete", "cc_deleteall"}
    /\ name \in ctl.todel
    /\ caches' = IF name \in DOMAIN caches THEN CachesDelete(caches, name) ELSE caches
    /\ ctl' = [ctl EXCEPT !.todel = @ \ {name}]
    /\ UNCHANGED <<slot, sent, pf, now, life, sweep, log, pages, inst>>

\* the Promise.all settles: broadcastMessage('SW_UPDATED', ...) and
\* self.skipWaiting() are called
ForceUpdateNotify ==
    /\ ctl.pc = "fu_delete"
    /\ ctl.todel = {}
    /\ Broadcast(ControlTask, "SW_UPDATED", "Service Worker updated, please reload",
                 NoUrlText)
    /\ ctl' = [ctl EXCEPT !.pc = "fu_skip", !.skipped = TRUE]
    /\ UNCHANGED <<caches, slot, pf, now, life, sweep, log, pages, inst>>

\* self.skipWaiting() settles: handleForceUpdate returns
ForceUpdateEnd ==
    /\ ctl.pc = "fu_skip"
    /\ ctl' = IdleControl
    /\ UNCHANGED <<caches, slot, sent, pf, now, life, sweep, log, pages, inst>>

\* ClearCacheMessage taking every message as one that names no cache
ClearCacheMessageAll(name) ==
    /\ ctl.pc = "idle"
    /\ ctl' = [IdleControl EXCEPT !.pc = "cc_keys", !.arg = name]
    /\ log' = [log EXCEPT !.start = caches]
    /\ UNCHANGED <<caches, slot, sent, pf, now, life, sweep, pages, inst>>

\* CLEAR_CACHE arrives: handleClearCache(name) calls caches.delete(name)
\* when a name is given and caches.keys() when none is
ClearCacheMessage(name) ==
    /\ ctl.pc = "idle"
    /\ ctl' = [IdleControl EXCEPT !.pc = IF name # NoName THEN "cc_delete" ELSE "cc_keys",
                                  !.arg = name]
    /\ log' = [log EXCEPT !.start = caches]
    /\ UNCHANGED <<caches, slot, sent, pf, now, life, sweep, pages, inst>>

\* caches.delete(cacheName) settles: the broadcast, and the handler returns
ClearCacheDeleted ==
    /\ ctl.pc = "cc_delete"
    /\ caches' = IF ctl.arg \in DOMAIN caches THEN CachesDelete(caches, ctl.arg) ELSE caches
    /\ Broadcast(ControlTask, "CACHE_UPDATED", "Cache cleared successfully", NoUrlText)
    /\ ctl' = [ctl EXCEPT !.pc = "cc_end"]
    /\ UNCHANGED <<slot, pf, now, life, sweep, log, pages, inst>>

\* caches.keys() settles: caches.delete is called for every 'meow-' name
ClearCacheKeys ==
    /\ ctl.pc = "cc_keys"
    /\ ctl' = [ctl EXCEPT !.pc = "cc_deleteall", !.todel = MeowNames(caches)]
    /\ UNCHANGED <<caches, slot, sent, pf, now, life, sweep, log, pages, inst>>

\* the Promise.all settles: the broadcast, and the handler returns
ClearCacheNotify ==
    /\ ctl.pc = "cc_deleteall"
    /\ ctl.todel = {}
    /\ Broadcast(ControlTask, "CACHE_UPDATED", "Cache cleared successfully", NoUrlText)
    /\ ctl' = [ctl EXCEPT !.pc = "cc_end"]
    /\ UNCHANGED <<caches, slot, pf, now, life, sweep, log, pages, inst>>

\* handleClearCache has returned
ClearCacheEnd ==
    /\ ctl.pc = "cc_end"
    /\ ctl' = IdleControl
    /\ UNCHANGED <<caches, slot, sent, pf, now, life, sweep, log, pages, inst>>

----------------------------------------------------------------------------
(* broadcastMessage and the pages *)

Clients == 1..MaxClients

\* state: "new" before the page is a client of the worker, "connected"
\* while it is, "gone" after; calls: the calls of broadcastMessage whose
\* clients.matchAll() has settled; inbox: what each page has received
NoPages ==
    [state |-> [c \in Clients |-> "new"],
     calls |-> <<>>,
     inbox |-> [c \in Clients |-> <<>>]]

\* a page becomes a client of the worker
PageConnects(c) ==
    /\ pages.state[c] = "new"
    /\ pages' = [pages EXCEPT !.state[c] = "connected"]
    /\ UNCHANGED <<caches, slot, sent, pf, now, life, sweep, log, ctl, inst>>

\* a page is closed
PageLeaves(c) ==
    /\ pages.state[c] = "connected"
    /\ pages' = [pages EXCEPT !.state[c] = "gone"]
    /\ UNCHANGED <<caches, slot, sent, pf, now, life, sweep, log, ctl, inst>>

\* self.clients.matchAll() of the call for message m of task t settles with
\* the clients of that moment
BroadcastEnumerated(t, m) ==
    /\ m \in sent[t]
    /\ \A k \in 1..Len(pages.calls) : ~(pages.calls[k].task = t /\ pages.calls[k].msg = m)
    /\ pages' = [pages EXCEPT !.calls = Append(@,
                     [task |-> t, msg |-> m,
                      targets |-> {c \in Clients : pages.state[c] = "connected"},
                      posted |-> FALSE])]
    /\ UNCHANGED <<caches, slot, sent, pf, now, life, sweep, log, ctl, inst>>

\* BroadcastPosted posting to the clients of the moment of the loop
BroadcastPostedToCurrent(k) ==
    /\ k \in 1..Len(pages.calls)
    /\ ~pages.calls[k].posted
    /\ pages' = [pages EXCEPT
           !.calls[k].posted = TRUE,
           !.inbox = [c \in Clients |->
                         IF pages.state[c] = "connected" THEN Append(@[c], k) ELSE @[c]]]
    /\ UNCHANGED <<caches, slot, sent, pf, now, life, sweep, log, ctl, inst>>

\* BroadcastPosted with a loop that ends at the first client that is gone
BroadcastPostedStopping(k) ==
    /\ k \in 1..Len(pages.calls)
    /\ ~pages.calls[k].posted
    /\ pages' = [pages EXCEPT
           !.calls[k].posted = TRUE,
           !.inbox = [c \in Clients |->
                         IF /\ c \in pages.calls[k].targets
                            /\ \A d \in pages.calls[k].targets :
                                   d <= c => pages.state[d] = "connected"
                         THEN Append(@[c], k) ELSE @[c]]]
    /\ UNCHANGED <<caches, slot, sent, pf, now, life, sweep, log, ctl, inst>>

\* clients.forEach(client => client.postMessage(messageData)) of call k: the
\* message is queued for every enumerated client; a client that is gone by
\* then gets nothing, and postMessage does not throw for it
BroadcastPosted(k) ==
    /\ k \in 1..Len(pages.calls)
    /\ ~pages.calls[k].posted
    /\ pages' = [pages EXCEPT
           !.calls[k].posted = TRUE,
           !.inbox = [c \in Clients |->
                         IF c \in pages.calls[k].targets /\ pages.state[c] = "connected"
                         THEN Append(@[c], k) ELSE @[c]]]
    /\ UNCHANGED <<caches, slot, sent, pf, now, life, sweep, log, ctl, inst>>

----------------------------------------------------------------------------
(* The requests the worker is driven with *)

SiteUrl(path, search, hash) == Url("https:", "site", path, search, hash)

UPoster == SiteUrl(<<"seg", ".png">>, <<>>, <<>>)

UPosterFrag == SiteUrl(<<"seg", ".png">>, <<>>, <<"frag">>)

UShows == SiteUrl(<<"seg", ".json">>, <<>>, <<>>)

UPage == SiteUrl(<<"seg", ".html">>, <<>>, <<>>)

UClip == SiteUrl(<<"video", "seg">>, <<>>, <<>>)

UHome == SiteUrl(<<"seg">>, <<>>, <<>>)

UFont == Url("https:", "fonts.gstatic.com", <<"seg">>, <<>>, <<>>)

UStyle == Url("https:", "fonts.googleapis.com", <<"seg", ".css">>, <<>>, <<>>)

UExtension == Url("chrome-extension:", "ext", <<"seg", ".png">>, <<>>, <<>>)

SampleRequests ==
    {Req("GET", u, FALSE) :
        u \in {UPoster, UPosterFrag, UShows, UPage, UClip, UFont}}
    \cup {Req("GET", UHome, TRUE),
          Req("POST", UShows, FALSE), Req("GET", UExtension, FALSE)}

\* the URL lists of the PREFETCH_RESOURCES messages
PrefetchLists == {<<UClip>>}

----------------------------------------------------------------------------
(* The worker serving fetch events and prefetch messages *)

\* STATIC_CACHE_URLS, as stored by the install handler
StaticEntries == <<[key |-> KeyOf(UHome), resp |-> NetResponse(UHome, TRUE, "v1")]>>

\* the caches a worker that has run before starts with: the static assets
\* of the install handler, a stylesheet that cacheFirstStrategy stored, a
\* clip that handlePrefetchResources stored, and the other caches opened
InstalledCaches ==
    [n \in CurrentNames |->
        IF n = CACHE_NAMES["STATIC"]
        THEN StaticEntries
        ELSE IF n = CACHE_NAMES["FONTS"]
        THEN <<[key |-> KeyOf(UStyle), resp |-> NetResponse(UStyle, TRUE, "v1")]>>
        ELSE IF n = CACHE_NAMES["DYNAMIC"]
        THEN <<[key |-> KeyOf(UClip), resp |-> NetResponse(UClip, TRUE, "v1")]>>
        ELSE <<>>]

\* rec: whether the puts are recorded; puts: cache name -> the keys put, in
\* order; start: the caches as the handler under study found them
NoLog == [rec |-> FALSE, puts |-> [n \in CurrentNames |-> <<>>], start |-> <<>>]

Init ==
    /\ now = 0
    /\ caches = InstalledCaches
    /\ slot = [r \in Slots |-> IdleSlot]
    /\ sent = NothingSent
    /\ pf = IdlePrefetch
    /\ life = Activated
    /\ sweep = IdleSweep
    /\ ctl = IdleControl
    /\ pages = NoPages
    /\ inst = IdleInstall
    /\ log = NoLog

NetworkFirstSteps(r) ==
    \/ \E out \in NetOutcomes(slot[r].req.url) : NetworkFirstFetched(r, out)
    \/ NetworkFirstFallback(r)

CacheFirstSteps(r) ==
    \/ CacheFirstMatch(r)
    \/ \E out \in NetOutcomes(slot[r].req.url) : CacheFirstFetched(r, out)
    \/ \E stored \in BOOLEAN : CacheFirstPut(r, stored)
    \/ CacheFirstEvictKeys(r)
    \/ CacheFirstEvictDelete(r)
    \/ \E out \in NetOutcomes(slot[r].req.url) : BackgroundFetched(r, out)
    \/ \E stored \in BOOLEAN : BackgroundPut(r, stored)

StaleSteps(r) ==
    \/ StaleMatch(r)
    \/ \E out \in NetOutcomes(slot[r].req.url) : StaleFetched(r, out)
    \/ \E stored \in BOOLEAN : StalePut(r, stored)
    \/ \E used \in BOOLEAN : StaleEvictKeys(r, used)
    \/ \E used \in BOOLEAN : StaleEvictDelete(r, used)

Strategies(r) ==
    \/ NetworkFirstSteps(r)
    \/ CacheFirstSteps(r)
    \/ StaleSteps(r)

Prefetch ==
    \/ \E urls \in PrefetchLists : PrefetchMessage(urls)
    \/ \E i \in 1..Len(pf.urls) :
           \E out \in NetOutcomes(pf.urls[i]) : PrefetchFetched(i, out)
    \/ \E i \in 1..Len(pf.urls), stored \in BOOLEAN : PrefetchPut(i, stored)
    \/ PrefetchJoin

Next ==
    \/ \E r \in Slots, req \in SampleRequests : FetchEvent(r, req)
    \/ \E r \in Slots : Release(r)
    \/ \E r \in Slots : Strategies(r)

Spec == Init /\ [][Next]_vars

----------------------------------------------------------------------------
(* Properties of the fetch listener and the strategies, under Spec *)

\* a request the listener routes on a streaming-media pattern
IsStreaming(req) == Intercepts(req) /\ NETWORK_FIRST_PATTERNS(PathSearch(req.url))

\* C1: a GET request whose path and query match a streaming-media pattern
\* is handed to networkFirstStrategy, and no step of its handling up to and
\* after a fetch that settled with a response changes any cache.
C1_StreamingIsNetworkFirstAndWritesNothing ==
    [][\A r \in Slots :
        LET b == slot[r]
            a == slot'[r]
        IN  /\ (b.pc = "idle" /\ a.pc # "idle" /\ IsStreaming(a.req))
                   => (a.strategy = "networkFirst" /\ a.pc = "nf_fetch")
            /\ (a # b /\ (IsStreaming(a.req) \/ IsStreaming(b.req))
                      /\ a.net.tag # "error" /\ b.net.tag # "error")
                   => caches' = caches]_vars

\* C1 witness: a streaming request settled with the ok response of the network
C1_Witness ==
    \E r \in Slots :
        /\ slot[r].pc = "done"
        /\ IsStreaming(slot[r].req)
        /\ slot[r].net.tag = "response" /\ slot[r].net.ok
        /\ slot[r].settled = "resolved" /\ slot[r].value = slot[r].net

\* C2, as claimed: an image request that found no entry and whose fetch was
\* rejected resolves with the image/svg+xml placeholder.  The catch block
\* tests the patterns on request.url, which ends with the fragment.
C2_ImageFailureYieldsPlaceholder ==
    \A r \in Slots :
        (/\ slot[r].pc = "done"
         /\ slot[r].strategy = "cacheFirst"
         /\ IMAGE_CACHE_PATTERNS(PathSearch(slot[r].req.url))
         /\ slot[r].cached = Undefined
         /\ slot[r].net = NetworkError)
        => (slot[r].settled = "resolved" /\ slot[r].value.ctype = "image/svg+xml")

\* C3: once cacheFirstStrategy or staleWhileRevalidateStrategy has found an
\* entry, the call has resolved with that entry, in every state in which the
\* fetch it started is in flight or has settled.
C3_HitResolvesWithoutTheNetwork ==
    \A r \in Slots :
        (slot[r].strategy \in {"cacheFirst", "staleWhileRevalidate"}
            /\ slot[r].cached # Undefined)
        => (slot[r].settled = "resolved" /\ slot[r].value = slot[r].cached)

\* C3 witness: the stale entry has been returned and the fetch is in flight
C3_Witness ==
    \E r \in Slots :
        /\ slot[r].strategy = "staleWhileRevalidate"
        /\ slot[r].pc = "swr_fetch"
        /\ slot[r].cached # Undefined
        /\ slot[r].settled = "resolved" /\ slot[r].value = slot[r].cached

\* C4, as claimed: with no stale entry the call stays pending until the fetch
\* settles, and once the fetch has settled with a response the call resolves
\* with that response.  A rejected cache.put makes it resolve with undefined.
C4_NoStaleResolvesWithNetworkResponse ==
    \A r \in Slots :
        (slot[r].strategy = "staleWhileRevalidate" /\ slot[r].cached = Undefined)
        => /\ slot[r].pc \in {"swr_match", "swr_fetch"} => slot[r].settled = "pending"
           /\ (slot[r].pc = "done" /\ slot[r].net.tag = "response")
                  => (slot[r].settled = "resolved" /\ slot[r].value = slot[r].net)

\* C9: the listener calls respondWith only for a GET request over http or
\* https; for any other request it invokes no strategy and supplies no
\* response, and no step of that event changes a cache or broadcasts.
C9_OnlyGetOverHttpIsIntercepted ==
    [][\A r \in Slots :
        LET b == slot[r]
            a == slot'[r]
        IN  /\ (b.pc = "idle" /\ a.pc # "idle")
                   => IF a.req.method = "GET" /\ a.req.url.protocol \in {"http:", "https:"}
                      THEN a.settled = "pending" /\ a.strategy # "none"
                      ELSE /\ a.pc = "passthrough"
                           /\ a.strategy = "none" /\ a.settled = "none"
                           /\ caches' = caches /\ sent' = sent
            /\ (b.pc = "passthrough" /\ a # b)
                   => (a = IdleSlot /\ caches' = caches /\ sent' = sent)]_vars

\* C9 witness: a POST request is in a slot, with no strategy and no response
C9_Witness ==
    \E r \in Slots :
        /\ slot[r].pc = "passthrough"
        /\ slot[r].req.method = "POST"
        /\ slot[r].strategy = "none" /\ slot[r].settled = "none"

\* the responses the Dynamic cache holds for request req
HeldInDynamic(cs, req) ==
    {e.resp : e \in {x \in Range(EntriesOf(cs, CACHE_NAMES["DYNAMIC"])) :
                         x.key = KeyOf(req.url)}}

\* C10: when fetch rejects, networkFirstStrategy returns the entry the
\* Dynamic cache holds for the request and broadcasts OFFLINE_FALLBACK;
\* with no entry it returns the offline document when the request accepts
\* text/html, and otherwise rejects with the network failure.
C10_NetworkFirstFallback ==
    [][\A r \in Slots :
        LET b == slot[r]
            a == slot'[r]
            held == HeldInDynamic(caches, b.req)
        IN  /\ (b.pc = "nf_fetch" /\ a # b /\ a.net.tag = "error")
                   => (a.pc = "nf_match" /\ a.settled = "pending")
            /\ (b.pc = "nf_match" /\ a # b)
                   => /\ a.pc = "done"
                      /\ IF held # {}
                         THEN /\ a.settled = "resolved" /\ a.value \in held
                              /\ \E m \in sent'[FetchTask(r)] :
                                     m.type = "OFFLINE_FALLBACK" /\ m.url = Href(b.req.url)
                         ELSE /\ sent' = sent
                              /\ IF b.req.acceptsHtml
                                 THEN a.settled = "resolved" /\ a.value = OfflinePage
                                 ELSE a.settled = "rejected" /\ a.value = NetworkError]_vars

\* C10 witness: a failed request was served from the Dynamic cache
C10_Witness ==
    \E r \in Slots :
        /\ slot[r].strategy = "networkFirst" /\ slot[r].pc = "done"
        /\ slot[r].net = NetworkError
        /\ slot[r].cached # Undefined /\ slot[r].value = slot[r].cached
        /\ \E m \in sent[FetchTask(r)] : m.type = "OFFLINE_FALLBACK"

\* C11, as claimed: when the fetch of staleWhileRevalidateStrategy rejects,
\* CACHE_ERROR is broadcast, and the call resolves with the stale entry when
\* there was one and rejects when there was none.  The .catch returns
\* cachedResponse, so with no stale entry the call resolves with undefined.
C11_StaleFailurePropagates ==
    \A r \in Slots :
        (/\ slot[r].strategy = "staleWhileRevalidate"
         /\ slot[r].pc = "done"
         /\ slot[r].net = NetworkError)
        => /\ \E m \in sent[FetchTask(r)] : m.type = "CACHE_ERROR"
           /\ IF slot[r].cached # Undefined
              THEN slot[r].settled = "resolved" /\ slot[r].value = slot[r].cached
              ELSE slot[r].settled = "rejected"

\* C18, as claimed: a response that is not ok is not what the caller gets
\* from networkFirstStrategy while the Dynamic cache holds an entry for the
\* request, nor from cacheFirstStrategy for an image request.  Neither
\* strategy tests the status before it returns networkResponse.
C18_NonOkIsRecoveredLocally ==
    \A r \in Slots :
        (/\ slot[r].pc = "done"
         /\ slot[r].net.tag = "response" /\ ~slot[r].net.ok)
        => /\ (slot[r].strategy = "networkFirst"
                   /\ HeldInDynamic(caches, slot[r].req) # {})
               => slot[r].value # slot[r].net
           /\ (slot[r].strategy = "cacheFirst"
                   /\ IMAGE_CACHE_PATTERNS(PathSearch(slot[r].req.url)))
               => slot[r].value # slot[r].net

\* the refresh of slot record s stored its response: the fetch gave an ok
\* response and cache.put did not reject
RefreshStored(r) ==
    /\ slot[r].strategy = "staleWhileRevalidate"
    /\ slot[r].pc = "done"
    /\ slot[r].net.tag = "response" /\ slot[r].net.ok
    /\ ~\E m \in sent[FetchTask(r)] : m.type = "CACHE_ERROR" /\ m.message = "cache"

\* C19, as claimed: after a refresh that stored its response, CONTENT_UPDATED
\* has been broadcast exactly when a stale entry existed and the bodies
\* differ, and CACHE_UPDATED when no entry existed.  cachedResponse.clone()
\* throws once the page has read the stale response it was given.
C19_RefreshStoresAndNotifies ==
    \A r \in Slots :
        RefreshStored(r) =>
            LET types == {m.type : m \in sent[FetchTask(r)]}
            IN  IF slot[r].cached = Undefined
                THEN "CACHE_UPDATED" \in types
                ELSE ("CONTENT_UPDATED" \in types)
                         <=> (slot[r].cached.body # slot[r].net.body)

\* C21, as claimed: a background refresh whose cache.put has settled without
\* the refresh announcing its completion has failed, and the failure has been
\* broadcast as CACHE_ERROR.  The catch block of updateInBackground only
\* writes to the console.
C21_BackgroundFailureIsBroadcast ==
    [][\A r \in Slots :
          (/\ slot[r].pc = "bg_put" /\ slot'[r].pc = "done"
           /\ ~\E m \in sent'[FetchTask(r)] : m.message = "Background update completed")
          => \E m \in sent'[FetchTask(r)] : m.type = "CACHE_ERROR"]_vars

\* C22, as claimed: once a call of cacheFirstStrategy or of
\* staleWhileRevalidateStrategy that found no entry has ended and its fetch
\* had settled with a response, the caller has that response.  A rejected
\* cache.put takes both strategies to their catch handlers.
C22_CacheFailureIsNotFatal ==
    \A r \in Slots :
        (/\ slot[r].strategy \in {"cacheFirst", "staleWhileRevalidate"}
         /\ slot[r].cached = Undefined
         /\ slot[r].pc = "done"
         /\ slot[r].net.tag = "response")
        => (slot[r].settled = "resolved" /\ slot[r].value = slot[r].net)

----------------------------------------------------------------------------
(* Progress of networkFirstStrategy: SpecLive serves one request at a time  *)
(* and assumes that a fetch and a cache lookup that were started settle     *)

NextLive ==
    \/ slot[1].pc = "idle" /\ \E req \in SampleRequests : FetchEvent(1, req)
    \/ Release(1)
    \/ Strategies(1)

SpecLive == Init /\ [][NextLive]_vars /\ WF_vars(NetworkFirstSteps(1))

----------------------------------------------------------------------------
(* The classifier on its own: SpecClassify draws requests from every        *)
(* pathname of up to MaxPathLen tokens                                      *)

PathTokens ==
    {"seg", ".m3u8", ".ts", ".mp4", ".webm", "video", ".png", "share_image_url",
     "placeholder", ".json", "master_", ".html", ".css", ".js"}

Queries == {<<>>, <<"q">>, <<"video">>, <<".png">>, <<".json">>, <<".html">>}

ClassifierHosts == {"site", "fonts.gstatic.com", "cdn.jsdelivr.net"}

ClassifierRequests ==
    {Req("GET", Url("https:", h, p, q, <<>>), FALSE) :
        h \in ClassifierHosts, p \in SeqsUpTo(PathTokens, MaxPathLen), q \in Queries}
    \cup {Req("POST", UShows, FALSE)}

\* one request at a time: classifying reads nothing but the request
NextClassify ==
    \/ slot[1].pc = "idle" /\ \E req \in ClassifierRequests : FetchEvent(1, req)
    \/ Release(1)

SpecClassify == Init /\ [][NextClassify]_vars

\* the pattern groups, highest precedence first
Precedence == <<"streaming", "image", "structured", "external", "document">>

\* whether URL u matches group g, each group on the part of the URL the
\* listener tests it on
GroupMatches(g, u) ==
    CASE g = "streaming"  -> NETWORK_FIRST_PATTERNS(PathSearch(u))
      [] g = "image"      -> IMAGE_CACHE_PATTERNS(PathSearch(u))
      [] g = "structured" -> JSON_CACHE_PATTERNS(u.path)
      [] g = "external"   -> EXTERNAL_CACHE_PATTERNS(u.host)
      [] g = "document"   -> DYNAMIC_CACHE_PATTERNS(u.path)

MatchedGroups(u) == {i \in 1..Len(Precedence) : GroupMatches(Precedence[i], u)}

\* C8: every intercepted request gets the treatment of the first group, in
\* the order streaming > image > structured data > external host > document,
\* that it matches, and network-first when it matches none.
C8_RoutedByHighestPrecedenceGroup ==
    LET Treatment(g) ==
            CASE g = "streaming"  -> <<"networkFirst", NoCache>>
              [] g = "image"      -> <<"cacheFirst", <<"meow", "images", CACHE_VERSION>> >>
              [] g = "structured" -> <<"staleWhileRevalidate", <<"meow", "json", CACHE_VERSION>> >>
              [] g = "external"   -> <<"cacheFirst", <<"meow", "fonts", CACHE_VERSION>> >>
              [] g = "document"   -> <<"staleWhileRevalidate", <<"meow", "dynamic", CACHE_VERSION>> >>
    IN  \A r \in Slots :
            slot[r].strategy # "none" =>
                LET m == MatchedGroups(slot[r].req.url)
                    got == <<slot[r].strategy, slot[r].cacheName>>
                IN  IF m = {}
                    THEN got = <<"networkFirst", NoCache>>
                    ELSE got = Treatment(Precedence[CHOOSE i \in m : \A j \in m : i <= j])

\* C8 witness: a request that matches the image and the structured-data
\* groups has gone to cache-first on the Images cache
C8_Witness ==
    \E r \in Slots :
        /\ {2, 3} \subseteq MatchedGroups(slot[r].req.url)
        /\ slot[r].strategy = "cacheFirst"
        /\ slot[r].cacheName = CACHE_NAMES["IMAGES"]

----------------------------------------------------------------------------
(* Count-based eviction, one request at a time: SpecEvict starts from       *)
(* empty caches and records the puts                                        *)

Letters == <<"a", "b", "c", "d", "e", "f">>

ImageUrl(i) == SiteUrl(<<Letters[i], ".png">>, <<>>, <<>>)

PageUrl(i) == SiteUrl(<<Letters[i], ".html">>, <<>>, <<>>)

EvictRequests ==
    {Req("GET", ImageUrl(i), FALSE) : i \in 1..(LimitLarge + 1)}
    \cup {Req("GET", PageUrl(i), FALSE) : i \in 1..(LimitSmall + 1)}

InitEvict ==
    /\ now = 0
    /\ caches = [n \in CurrentNames |-> <<>>]
    /\ slot = [r \in Slots |-> IdleSlot]
    /\ sent = NothingSent
    /\ pf = IdlePrefetch
    /\ life = Activated
    /\ sweep = IdleSweep
    /\ ctl = IdleControl
    /\ pages = NoPages
    /\ inst = IdleInstall
    /\ log = [NoLog EXCEPT !.rec = TRUE]

\* the history of the cache that req is routed to has room for one more put
HasRoom(req) == Len(log.puts[Route(req.url).cacheName]) <= LimitOf(Route(req.url).cacheName)

NextEvict ==
    \/ \E req \in EvictRequests : HasRoom(req) /\ FetchEvent(1, req)
    \/ Release(1)
    \/ CacheFirstSteps(1)
    \/ StaleSteps(1)

SpecEvict == InitEvict /\ [][NextEvict]_vars

Distinct(h) == \A i, j \in 1..Len(h) : i # j => h[i] # h[j]

\* no eviction pass is pending: every write has been followed by its pass
PassesDone ==
    \A r \in Slots : slot[r].pc \notin {"cf_keys", "cf_delete", "swr_keys", "swr_delete"}

\* C5: when limit + 1 distinct entries have been put in a cache, each put
\* followed by its eviction pass, the cache holds the last limit of them in
\* order: exactly the first one inserted has been removed.
C5_EvictsExactlyTheFirstInserted ==
    \A n \in CurrentNames :
        LET h == log.puts[n]
        IN  (log.rec /\ PassesDone /\ Distinct(h) /\ Len(h) = LimitOf(n) + 1)
            => (/\ CacheKeys(EntriesOf(caches, n)) = Tail(h)
                /\ Len(EntriesOf(caches, n)) = LimitOf(n))

\* C5 witness: the Images cache after limit + 1 distinct puts and the pass
C5_Witness ==
    LET n == CACHE_NAMES["IMAGES"]
    IN  /\ log.rec /\ PassesDone
        /\ Distinct(log.puts[n]) /\ Len(log.puts[n]) = LimitOf(n) + 1
        /\ CacheKeys(EntriesOf(caches, n)) = Tail(log.puts[n])

----------------------------------------------------------------------------
(* The periodic sweep: SpecSweep lets days pass between prefetch messages    *)
(* and sweeps, one handler at a time                                        *)

\* a PREFETCH_RESOURCES list that fills the Dynamic cache past its limit
SweepPrefetchList == [i \in 1..(LimitSmall + 1) |-> PageUrl(i)]

\* the last day a prefetch message arrives: what is stored until then can
\* age past the retention window before the clock stops
LastBusyDay == MaxDay - RetentionDays - 1

NextSweep ==
    \/ sweep.pc = "idle" /\ now <= LastBusyDay /\ PrefetchMessage(SweepPrefetchList)
    \/ \E i \in 1..Len(pf.urls) :
           \E out \in NetOutcomes(pf.urls[i]) : PrefetchFetched(i, out)
    \/ \E i \in 1..Len(pf.urls), stored \in BOOLEAN : PrefetchPut(i, stored)
    \/ PrefetchJoin
    \/ pf = IdlePrefetch /\ sweep.pc = "idle" /\ Tick
    \/ pf = IdlePrefetch /\ CleanupStart
    \/ CleanupCount
    \/ CleanupAge
    \/ CleanupEnd

SpecSweep == Init /\ [][NextSweep]_vars

\* the entries cache n held when the sweep started
AtStart(n) == IF n \in DOMAIN log.start THEN log.start[n] ELSE <<>>

\* entry e of cache n, as the sweep found it, is in the cache now
StillHeld(n, e) == e \in Range(EntriesOf(caches, n))

\* the entries of cache n in excess of its count limit when the sweep
\* started: the first Len - limit in insertion order
ExcessAtStart(n) ==
    {AtStart(n)[i] : i \in 1..(IF Len(AtStart(n)) > LimitOf(n)
                              THEN Len(AtStart(n)) - LimitOf(n) ELSE 0)}

----------------------------------------------------------------------------
(* Activation: SpecActivate starts a new version's worker on the caches     *)
(* that earlier versions and other scripts of the origin left               *)

OldVersion == "0909240100"

\* names of the caches of an earlier version
OldNames == {<<"meow", c, OldVersion>> : c \in {"static", "dynamic", "images"}}

\* a cache of the origin that is not the worker's
ForeignName == <<"workbox", "precache", "v2">>

\* what a cache left behind can hold
LeftContents ==
    {<<>>, <<[key |-> KeyOf(UPoster), resp |-> NetResponse(UPoster, TRUE, "v1")]>>}

\* the caches that may or may not exist when the worker is activated
OptionalNames ==
    OldNames \cup {ForeignName, CACHE_NAMES["DYNAMIC"], CACHE_NAMES["IMAGES"]}

InitActivate ==
    /\ now = 0
    /\ \E present \in SUBSET OptionalNames :
       \E held \in [present -> LeftContents] :
           caches = [n \in present \cup {CACHE_NAMES["STATIC"]} |->
                        IF n \in present THEN held[n] ELSE StaticEntries]
    /\ slot = [r \in Slots |-> IdleSlot]
    /\ sent = NothingSent
    /\ pf = IdlePrefetch
    /\ life = Installed
    /\ sweep = IdleSweep
    /\ ctl = IdleControl
    /\ pages = NoPages
    /\ inst = IdleInstall
    /\ log = [NoLog EXCEPT !.start = caches]

NextActivate ==
    \/ ActivateEvent
    \/ ActivateKeys
    \/ \E name \in life.todel : ActivateDeleted(name)
    \/ ClientsClaimed
    \/ ActivateDone

SpecActivate == InitActivate /\ [][NextActivate]_vars

\* C7: when activation has completed, no cache named for another version
\* exists, whatever it held; every cache left with the worker's prefix is
\* named in CACHE_NAMES, and the current version's caches are as they were.
C7_ActivationLeavesOnlyCurrentCaches ==
    life.pc = "active" =>
        /\ \A n \in DOMAIN log.start :
               (n[1] = "meow" /\ n[3] # CACHE_VERSION) => n \notin DOMAIN caches
        /\ \A n \in DOMAIN caches : n[1] = "meow" => n \in CurrentNames
        /\ \A n \in DOMAIN log.start \cap CurrentNames :
               n \in DOMAIN caches /\ caches[n] = log.start[n]

\* C7 witness: activation has completed on caches that included an earlier
\* version's cache holding an entry and one holding none
C7_Witness ==
    /\ life.pc = "active"
    /\ \E n, m \in DOMAIN log.start \cap OldNames :
           /\ log.start[n] # <<>> /\ log.start[m] = <<>>
           /\ n \notin DOMAIN caches /\ m \notin DOMAIN caches

----------------------------------------------------------------------------
(* PREFETCH_RESOURCES: SpecPrefetch handles one message at a time, with     *)
(* lists of one or two URLs of every class                                  *)

\* a structured-data URL with a query string
UShowsQuery == SiteUrl(<<"seg", ".json">>, <<"q">>, <<>>)

PrefetchUrls == {UPoster, UPosterFrag, UShows, UShowsQuery, UPage}

PrefetchInputs == SeqsUpTo(PrefetchUrls, 2) \ {<<>>}

NextPrefetch ==
    \/ pf = IdlePrefetch /\ \E urls \in PrefetchInputs : PrefetchMessage(urls)
    \/ \E i \in 1..Len(pf.urls) :
           \E out \in NetOutcomes(pf.urls[i]) : PrefetchFetched(i, out)
    \/ \E i \in 1..Len(pf.urls), stored \in BOOLEAN : PrefetchPut(i, stored)
    \/ PrefetchJoin

SpecPrefetch == Init /\ [][NextPrefetch]_vars

\* the summary broadcasts of the handler
Summaries(out) == {m \in out[PrefetchTask] : m.type = "CACHE_UPDATED"}

\* C16: every listed URL is fetched on its own; an ok response is put in the
\* Images cache when the URL matches an image pattern, else in the JSON
\* cache when it matches a structured-data pattern, else in the Dynamic
\* cache; what happens to one URL changes nothing for another; and the one
\* CACHE_UPDATED summary is broadcast by the step that finds every URL done.
C16_PrefetchStoresEachAndSummarisesOnce ==
    [][LET ClassCache(u) ==
               IF IMAGE_CACHE_PATTERNS(Href(u)) THEN <<"meow", "images", CACHE_VERSION>>
               ELSE IF JSON_CACHE_PATTERNS(Href(u)) THEN <<"meow", "json", CACHE_VERSION>>
               ELSE <<"meow", "dynamic", CACHE_VERSION>>
           Done(p) == \A i \in 1..Len(p.urls) : p.st[i] = "done"
       IN  /\ (pf # IdlePrefetch /\ pf' # IdlePrefetch) =>
                  /\ pf'.urls = pf.urls
                  /\ sent' = sent /\ Summaries(sent) = {}
                  /\ \E i \in 1..Len(pf.urls) :
                         /\ \A j \in 1..Len(pf.urls) : j # i => pf'.st[j] = pf.st[j]
                         /\ \/ /\ pf.st[i] = "fetch" /\ caches' = caches
                               /\ pf'.st[i] \in {"put", "done"}
                               /\ pf'.st[i] = "put" => pf'.net[i].ok
                            \/ /\ pf.st[i] = "put" /\ pf'.st[i] = "done"
                               /\ LET n == ClassCache(pf.urls[i])
                                      e == [key |-> KeyOf(pf.urls[i]), resp |-> pf.net[i]]
                                  IN  /\ \A m \in DOMAIN caches : m # n => caches'[m] = caches[m]
                                      /\ \/ /\ Len(caches'[n]) > 0
                                            /\ caches'[n][Len(caches'[n])] = e
                                         \/ caches'[n] = EntriesOf(caches, n)
           /\ (pf # IdlePrefetch /\ pf' = IdlePrefetch) =>
                  /\ Done(pf) /\ caches' = caches
                  /\ Summaries(sent) = {} /\ Cardinality(Summaries(sent')) = 1]_vars

\* C16 witness: of two listed URLs one has failed and the other is stored in
\* the cache of its class, before the summary
C16_Witness ==
    /\ Len(pf.urls) = 2
    /\ pf.st = <<"done", "done">>
    /\ pf.net[1] = Undefined /\ pf.net[2] # Undefined
    /\ IMAGE_CACHE_PATTERNS(Href(pf.urls[2]))
    /\ CacheMatch(EntriesOf(caches, CACHE_NAMES["IMAGES"]), KeyOf(pf.urls[2])) = pf.net[2]
    /\ Summaries(sent) = {}

\* C20, as claimed: once the handling of a write is over, no cache holds more
\* entries than its limit.  handlePrefetchResources and updateInBackground
\* put without calling manageCacheSize.
C20_CountWithinLimitAfterEveryWrite ==
    (pf = IdlePrefetch /\ \A r \in Slots : slot[r].pc = "idle")
        => \A n \in DOMAIN caches \cap CurrentNames : Len(caches[n]) <= LimitOf(n)

----------------------------------------------------------------------------
(* Control messages and broadcasts: SpecControl handles FORCE_UPDATE and    *)
(* CLEAR_CACHE messages one at a time while pages come and go               *)

\* a cache of an earlier version
OldDynamic == <<"meow", "dynamic", OldVersion>>

\* the cacheName values of the CLEAR_CACHE messages
ClearArgs == {NoName, CACHE_NAMES["DYNAMIC"], CACHE_NAMES["IMAGES"], OldDynamic, ForeignName}

InitControl ==
    /\ now = 0
    /\ \E present \in SUBSET {OldDynamic, ForeignName} :
           caches = [n \in {CACHE_NAMES["STATIC"], CACHE_NAMES["DYNAMIC"]} \cup present |->
                        IF n \in CurrentNames THEN InstalledCaches[n]
                        ELSE <<[key |-> KeyOf(UPoster),
                                resp |-> NetResponse(UPoster, TRUE, "v1")]>>]
    /\ slot = [r \in Slots |-> IdleSlot]
    /\ sent = NothingSent
    /\ pf = IdlePrefetch
    /\ life = Activated
    /\ sweep = IdleSweep
    /\ ctl = IdleControl
    /\ pages = NoPages
    /\ inst = IdleInstall
    /\ log = NoLog

NextControl ==
    \/ ForceUpdateMessage
    \/ ForceUpdateKeys
    \/ \E name \in ctl.todel : ControlDeleted(name)
    \/ ForceUpdateNotify
    \/ ForceUpdateEnd
    \/ \E name \in ClearArgs : ClearCacheMessage(name)
    \/ ClearCacheDeleted
    \/ ClearCacheKeys
    \/ ClearCacheNotify
    \/ ClearCacheEnd
    \/ \E c \in Clients : PageConnects(c)
    \/ \E c \in Clients : PageLeaves(c)
    \/ \E m \in sent[ControlTask] : BroadcastEnumerated(ControlTask, m)
    \/ \E k \in 1..Len(pages.calls) : BroadcastPosted(k)

SpecControl == InitControl /\ [][NextControl]_vars

\* how many times page c has received the message of call k
Received(c, k) == Cardinality({i \in 1..Len(pages.inbox[c]) : pages.inbox[c][i] = k})

\* C12: a page receives the message of a call at most once, and never when
\* it was not a client at the moment clients.matchAll() settled; once the
\* loop has run, every enumerated page that is still a client has received
\* it exactly once.  A call that enumerated no client completes and reaches
\* nobody, also not a page that connects afterwards.
C12_DeliveredOnceToEnumeratedPagesOnly ==
    \A k \in 1..Len(pages.calls) : \A c \in Clients :
        LET call == pages.calls[k]
        IN  /\ Received(c, k) <= 1
            /\ c \notin call.targets => Received(c, k) = 0
            /\ ~call.posted => Received(c, k) = 0
            /\ (call.posted /\ c \in call.targets /\ pages.state[c] = "connected")
                   => Received(c, k) = 1

\* C12 witness: a call that found no client has completed, and a page that
\* connected afterwards has received nothing
C12_Witness ==
    \E k \in 1..Len(pages.calls) : \E c \in Clients :
        /\ pages.calls[k].posted /\ pages.calls[k].targets = {}
        /\ pages.state[c] = "connected" /\ pages.inbox[c] = <<>>

\* C13: the loop of a call queues the message for every enumerated page that
\* is still there, whichever of the enumerated pages are gone.
C13_FanOutIsIndependent ==
    [][\A k \in 1..Len(pages.calls) :
           (~pages.calls[k].posted /\ k \in 1..Len(pages'.calls) /\ pages'.calls[k].posted)
           => \A c \in pages.calls[k].targets :
                  pages.state[c] = "connected"
                      => pages'.inbox[c] = Append(pages.inbox[c], k)]_vars

\* C13 witness: of two enumerated pages the first was gone when the loop ran
\* and got nothing, and the second has received the message
C13_Witness ==
    \E k \in 1..Len(pages.calls) : \E c, d \in pages.calls[k].targets :
        /\ pages.calls[k].posted
        /\ d < c
        /\ pages.state[d] = "gone" /\ Received(d, k) = 0
        /\ Received(c, k) = 1

\* the SW_UPDATED messages among the messages of out
Updated(out) == {m \in out[ControlTask] : m.type = "SW_UPDATED"}

\* C14: handleForceUpdate calls broadcastMessage('SW_UPDATED') and
\* skipWaiting in the step that finds every deletion settled, when no cache
\* with the worker's prefix is left; when the handler is past that step both
\* have happened.
C14_NotifiesAndSkipsAfterDeletions ==
    [][/\ (Updated(sent') # Updated(sent) \/ (ctl'.skipped /\ ~ctl.skipped))
              => /\ ctl.pc = "fu_delete" /\ ctl.todel = {}
                 /\ MeowNames(caches) = {}
                 /\ \A n \in DOMAIN log.start : n[1] = "meow" => n \notin DOMAIN caches
                 /\ Updated(sent') # {} /\ ctl'.skipped
       /\ ctl.pc = "fu_skip"
              => (Updated(sent) # {} /\ ctl.skipped /\ MeowNames(caches) = {})]_vars

\* C14 witness: the handler found caches, deleted them, and has notified
C14_Witness ==
    /\ ctl.pc = "fu_skip"
    /\ \E n \in DOMAIN log.start : n[1] = "meow" /\ log.start[n] # <<>>
    /\ MeowNames(caches) = {}
    /\ Updated(sent) # {} /\ ctl.skipped

\* C15: when handleClearCache finishes, with a cacheName the storage is what
\* it was without the named cache, every other cache as it was; with none,
\* no cache with the worker's prefix is left.
C15_ClearsTheNamedCacheOrAll ==
    [][(ctl.pc \in {"cc_delete", "cc_deleteall"} /\ ctl'.pc = "cc_end")
           => IF ctl.arg # NoName
              THEN caches' = [n \in DOMAIN log.start \ {ctl.arg} |-> log.start[n]]
              ELSE /\ \A n \in DOMAIN caches' : n[1] # "meow"
                   /\ \A n \in DOMAIN log.start : n[1] = "meow" => n \notin DOMAIN caches']_vars

\* C15 witness: the named cache is gone and another cache of the worker is
\* held with its entries
C15_Witness ==
    /\ ctl.pc = "cc_end"
    /\ ctl.arg # NoName
    /\ ctl.arg \in DOMAIN log.start /\ ctl.arg \notin DOMAIN caches
    /\ \E n \in DOMAIN caches : n[1] = "meow" /\ caches[n] # <<>> /\ caches[n] = log.start[n]

----------------------------------------------------------------------------
(* Installation: SpecInstall installs a new version's worker beside the     *)
(* caches an earlier version left, and activates it                         *)

\* STATIC_CACHE_URLS: '/', a document and '/manifest.json' of the list
STATIC_CACHE_URLS == <<UHome, UPage, UShows>>

\* the worker before its install event
Installing == [Installed EXCEPT !.pc = "installing"]

\* the install event: the array handed to Promise.all is built, so
\* caches.open(CACHE_NAMES.STATIC) and self.skipWaiting() are both called
InstallEvent ==
    /\ life.pc = "installing"
    /\ inst.pc = "idle"
    /\ inst' = [inst EXCEPT !.pc = "open", !.skip = TRUE]
    /\ UNCHANGED <<caches, slot, sent, pf, now, life, sweep, log, ctl, pages>>

\* caches.open settles: cache.addAll fetches every URL of the list
InstallOpened ==
    /\ inst.pc = "open"
    /\ caches' = CachesOpen(caches, CACHE_NAMES["STATIC"])
    /\ inst' = [inst EXCEPT
           !.pc = "adding",
           !.st = [i \in 1..Len(STATIC_CACHE_URLS) |-> "fetch"],
           !.net = [i \in 1..Len(STATIC_CACHE_URLS) |-> Undefined]]
    /\ UNCHANGED <<slot, sent, pf, now, life, sweep, log, ctl, pages>>

\* the catch handler: the failure is logged, so that the promise handed to
\* event.waitUntil resolves and the worker is installed all the same
InstallFailed == [inst EXCEPT !.pc = "failed"]

\* one fetch of cache.addAll settles with out; a rejection or a response
\* that is not ok rejects addAll
InstallFetched(i, out) ==
    /\ inst.pc = "adding"
    /\ i \in 1..Len(STATIC_CACHE_URLS)
    /\ inst.st[i] = "fetch"
    /\ out \in NetOutcomes(STATIC_CACHE_URLS[i])
    /\ IF out.tag = "response" /\ out.ok
       THEN /\ inst' = [inst EXCEPT !.st[i] = "ok", !.net[i] = out]
            /\ life' = life
       ELSE /\ inst' = InstallFailed
            /\ life' = Installed
    /\ UNCHANGED <<caches, slot, sent, pf, now, sweep, log, ctl, pages>>

\* the entries cache.addAll stores, in the order of the list
AddedEntries ==
    [i \in 1..Len(STATIC_CACHE_URLS) |->
        [key |-> KeyOf(STATIC_CACHE_URLS[i]), resp |-> inst.net[i]]]

\* cache.addAll settles once every fetch has: all the entries are stored, or
\* the write is rejected
InstallAdded(stored) ==
    /\ inst.pc = "adding"
    /\ \A i \in 1..Len(STATIC_CACHE_URLS) : inst.st[i] = "ok"
    /\ IF stored
       THEN /\ caches' = [caches EXCEPT ![CACHE_NAMES["STATIC"]] =
                             CacheDeleteAll(@, CacheKeys(AddedEntries)) \o AddedEntries]
            /\ inst' = [inst EXCEPT !.pc = "populated"]
            /\ life' = life
       ELSE /\ caches' = caches
            /\ inst' = InstallFailed
            /\ life' = Installed
    /\ UNCHANGED <<slot, sent, pf, now, sweep, log, ctl, pages>>

\* Promise.all settles: the SW_ACTIVATED broadcast of the install handler
InstallDone ==
    /\ inst.pc = "populated"
    /\ inst' = [inst EXCEPT !.pc = "done"]
    /\ life' = Installed
    /\ Broadcast(LifecycleTask, "SW_ACTIVATED", "Service Worker activated", NoUrlText)
    /\ UNCHANGED <<caches, slot, pf, now, sweep, log, ctl, pages>>

InitInstall ==
    /\ now = 0
    /\ \E present \in SUBSET OldNames :
       \E held \in [present -> LeftContents] :
           caches = [n \in present |-> held[n]]
    /\ slot = [r \in Slots |-> IdleSlot]
    /\ sent = NothingSent
    /\ pf = IdlePrefetch
    /\ life = Installing
    /\ sweep = IdleSweep
    /\ ctl = IdleControl
    /\ pages = NoPages
    /\ inst = IdleInstall
    /\ log = [NoLog EXCEPT !.start = caches]

\* the installed worker is activated at once when skipWaiting was called
NextInstall ==
    \/ InstallEvent
    \/ InstallOpened
    \/ \E i \in 1..Len(STATIC_CACHE_URLS) :
           \E out \in NetOutcomes(STATIC_CACHE_URLS[i]) : InstallFetched(i, out)
    \/ \E stored \in BOOLEAN : InstallAdded(stored)
    \/ InstallDone
    \/ inst.skip /\ ActivateEvent
    \/ ActivateKeys
    \/ \E name \in life.todel : ActivateDeleted(name)
    \/ ClientsClaimed
    \/ ActivateDone

SpecInstall == InitInstall /\ [][NextInstall]_vars

\* C23, as claimed: self.skipWaiting() has been called only when cache.addAll
\* has stored the static assets.  The handler calls it while it builds the
\* array for Promise.all, before caches.open has settled.
C23_SkipWaitingAfterPopulation ==
    inst.skip => inst.pc \in {"populated", "done"}

----------------------------------------------------------------------------
(* The write paths: SpecWrites serves requests that cacheFirstStrategy and  *)
(* staleWhileRevalidateStrategy handle, beside a PREFETCH_RESOURCES message *)

WriteRequests == {Req("GET", u, FALSE) : u \in {UFont, UPage}}

NextWrites ==
    \/ \E r \in Slots, req \in WriteRequests : FetchEvent(r, req)
    \/ \E r \in Slots : Release(r)
    \/ \E r \in Slots : CacheFirstSteps(r)
    \/ \E r \in Slots : StaleSteps(r)
    \/ Prefetch

SpecWrites == Init /\ [][NextWrites]_vars

\* every entry of every cache holds a response whose status is ok
OnlyOkStored(cs) ==
    \A n \in DOMAIN cs : \A i \in 1..Len(cs[n]) :
        cs[n][i].resp.tag = "response" /\ cs[n][i].resp.ok

\* C25: after every step every stored entry is an ok response, and a step
\* in which a strategy call or a prefetch gets a response that is not ok
\* leaves every cache as it was.
C25_OnlyOkResponsesAreStored ==
    [][/\ OnlyOkStored(caches')
       /\ \A r \in Slots :
              (/\ slot'[r] # slot[r]
               /\ slot'[r].net.tag = "response" /\ ~slot'[r].net.ok)
              => caches' = caches
       /\ \A i \in 1..Len(pf.urls) :
              (pf.st[i] = "fetch" /\ pf' # IdlePrefetch /\ pf'.st[i] = "done")
              => caches' = caches]_vars

\* C25 witness: a refresh got a response that is not ok while the cache held
\* an entry for the request, and the entry is still the one it held
C25_Witness ==
    \E r \in Slots :
        /\ slot[r].strategy = "staleWhileRevalidate"
        /\ slot[r].pc = "done"
        /\ slot[r].cached # Undefined
        /\ slot[r].net.tag = "response" /\ ~slot[r].net.ok
        /\ CacheMatch(EntriesOf(caches, slot[r].cacheName), KeyOf(slot[r].req.url))
               = slot[r].cached

----------------------------------------------------------------------------
(* Concurrent writers: SpecRace serves requests for documents at the same   *)
(* time, each a call of staleWhileRevalidateStrategy on a Dynamic cache     *)
(* that is full                                                             *)

\* the fetch events in progress at the same time
Writers == 1..(MaxSlots + 1)

\* requests for three documents
RaceRequests == {Req("GET", PageUrl(i), FALSE) : i \in {1, 2, 3}}

\* the Dynamic cache holding as many documents as its limit
FullDynamic ==
    [i \in 1..LimitSmall |-> [key |-> KeyOf(PageUrl(i)), resp |-> NetResponse(PageUrl(i), TRUE, "v1")]]

InitRace ==
    /\ now = 0
    /\ caches = [n \in CurrentNames |->
                    IF n = CACHE_NAMES["DYNAMIC"] THEN FullDynamic ELSE <<>>]
    /\ slot = [r \in Writers |-> IdleSlot]
    /\ sent = [t \in Tasks \cup {FetchTask(r) : r \in Writers} |-> {}]
    /\ pf = IdlePrefetch
    /\ life = Activated
    /\ sweep = IdleSweep
    /\ ctl = IdleControl
    /\ pages = NoPages
    /\ inst = IdleInstall
    /\ log = NoLog

\* each writer serves one request
NextRace ==
    \/ \E r \in Writers : slot[r].pc = "idle" /\ \E req \in RaceRequests : FetchEvent(r, req)
    \/ \E r \in Writers : StaleSteps(r)

SpecRace == InitRace /\ [][NextRace]_vars

\* no write is in flight: every put that landed has had its eviction pass
Quiescent ==
    \A r \in Writers : slot[r].pc \notin {"swr_keys", "swr_delete"}

\* C24: whenever no write is in flight, every put having been followed by
\* its completed eviction pass, no cache holds more entries than its limit.
C24_ExcessIsTransient ==
    Quiescent => \A n \in DOMAIN caches : Len(caches[n]) <= LimitOf(n)

\* C24 witness: a pass that found the cache two entries over its limit,
\* another write having landed before it took the keys, has completed; no
\* write is in flight and the cache is within its limit
C24_Witness ==
    /\ Quiescent
    /\ \E r \in Writers :
           /\ slot[r].pc = "done"
           /\ Len(slot[r].todel) >= 2
           /\ Len(caches[slot[r].cacheName]) <= LimitOf(slot[r].cacheName)

\* C26, as claimed: no step takes a cache that holds at least its limit of
\* entries below its limit, and no step that removes entries removes the
\* most recently inserted one.  A pass deletes by key the keys it listed;
\* one of them may have been stored again since.
C26_EvictionKeepsTheNewest ==
    [][\A n \in DOMAIN caches :
          LET before == caches[n]
              after == caches'[n]
          IN  /\ Len(before) >= LimitOf(n) => Len(after) >= LimitOf(n)
              /\ Len(after) < Len(before)
                     => before[Len(before)] \in Range(after)]_vars

====
